---- MODULE Spec2Model ----
(***************************************************************************)
(* Model of src/path.rs of littlefs2: the borrowed Path (a nul-terminated  *)
(* ASCII byte string), the owned PathBuf (fixed array + len), their        *)
(* constructors, the two orderings, push/join, and the decomposition       *)
(* functions (ancestors, parent, file_name).                               *)
(*                                                                         *)
(* Bytes are numbers 0..255.  A byte slice or str is a sequence of bytes.  *)
(* A Path is the byte sequence of its CStr, terminator included.  A        *)
(* PathBuf is a record [buf, len]; buf is indexed from 0 like the array.   *)
(***************************************************************************)
EXTENDS Integers, Sequences, FiniteSets, TLC

VARIABLES
    pb,        \* the PathBuf being built and mutated
    joined,    \* the PathBuf returned by the last join
    old,       \* pb as it was when the last push / join was called
    arg,       \* the argument of the last PathBuf operation
    panicked,  \* the last operation aborted (assert! failed)
    op,        \* name of the last operation applied
    in1,       \* first input of the pure functions (a byte string / Path)
    in2,       \* second input (a Path)
    in3,       \* third input (a Path)
    out,       \* result of the last pure function applied
    it_path,   \* Ancestors.path / Iter.path: what the iterator has left
    it_ret,    \* the values the iterator's next has returned so far, in order
    pb2        \* a second PathBuf, to compare pb with

vars == <<pb, pb2, joined, old, arg, panicked, op, in1, in2, in3, out, it_path, it_ret>>

----------------------------------------------------------------------------
(* Bounds of the model *)

\* consts::PATH_MAX, scaled down so that every path can be enumerated
PATH_MAX == 4

\* longest content of the paths drawn for the comparisons
MaxCmpLen == 2

\* how many times Ancestors::next is called again after it has returned None
MaxNones == 2

\* longest content of the arguments given to the two PathBufs that are compared
MaxEqArg == 1

----------------------------------------------------------------------------
(* Bytes *)

NUL == 0
SLASH == 47

\* consts::PATH_MAX_PLUS_ONE, the capacity of PathBuf.buf
PATH_MAX_PLUS_ONE == PATH_MAX + 1

\* u8::is_ascii
is_ascii(byte) == byte <= 127

\* <[u8]>::is_ascii
bytes_is_ascii(bytes) == \A i \in 1..Len(bytes) : is_ascii(bytes[i])

\* all byte strings over an alphabet, up to a length
Strs(alphabet, n) == UNION {[1..k -> alphabet] : k \in 0..n}

\* str::is_empty / starts_with('/') / last()
starts_with_slash(s) == Len(s) > 0 /\ s[1] = SLASH

\* the input is a &str: it is UTF-8.  Over the bytes the model draws, the
\* only multi-byte character is U+00FC, the bytes 195 188.
is_utf8(s) ==
    \A i \in 1..Len(s) :
        /\ s[i] = 195 => (i < Len(s) /\ s[i + 1] = 188)
        /\ s[i] = 188 => (i > 1 /\ s[i - 1] = 195)
        /\ s[i] \in {195, 188} \/ is_ascii(s[i])

----------------------------------------------------------------------------
(* Path: constructors and views *)

Ok(path) == [ok |-> TRUE, path |-> path, err |-> "none"]
Err(e) == [ok |-> FALSE, path |-> <<>>, err |-> e]

\* CStr::to_bytes: the bytes without the terminator
to_bytes(cstr) == SubSeq(cstr, 1, Len(cstr) - 1)

\* Path::as_str, AsRef<str>
as_str(path) == to_bytes(path)

\* Path::as_str_ref_with_trailing_nul
as_str_ref_with_trailing_nul(path) == path

\* CStr::from_bytes_with_nul: the first nul must be the last byte
cstr_from_bytes_with_nul(bytes) ==
    /\ \E i \in 1..Len(bytes) : bytes[i] = NUL
    /\ \A i \in 1..Len(bytes) : bytes[i] = NUL => i = Len(bytes)

from_cstr_TooLargeOffByOne(cstr) ==
    LET bytes == to_bytes(cstr)
        n == Len(bytes)
    IN  IF n >= PATH_MAX THEN Err("TooLarge")
        ELSE IF bytes_is_ascii(bytes) THEN Ok(cstr)
        ELSE Err("NotAscii")

\* Path::from_cstr
from_cstr(cstr) ==
    LET bytes == to_bytes(cstr)
        n == Len(bytes)
    IN  IF n > PATH_MAX THEN Err("TooLarge")
        ELSE IF bytes_is_ascii(bytes) THEN Ok(cstr)
        ELSE Err("NotAscii")

\* Path::from_bytes_with_nul
from_bytes_with_nul(bytes) ==
    IF ~cstr_from_bytes_with_nul(bytes) THEN Err("NotCStr")
    ELSE from_cstr(bytes)

\* Path::from_str_with_nul; a failed assert! is Err("panic")
from_str_with_nul(s) ==
    LET bytes == s
        last == IF Len(bytes) = 0 THEN 0 ELSE Len(bytes) - 1  \* saturating_sub(1)
    IN  IF \E i \in 1..last : bytes[i] = NUL \/ ~is_ascii(bytes[i])
            THEN Err("panic")
        ELSE IF Len(bytes) = 0 THEN Err("panic")
        ELSE IF bytes[last + 1] # NUL THEN Err("panic")
        ELSE Ok(bytes)

----------------------------------------------------------------------------
(* PathBuf *)

Built(p) == [pb |-> p, panicked |-> FALSE]
Panic(p) == [pb |-> p, panicked |-> TRUE]

\* PathBuf::new
new == [buf |-> [i \in 0..(PATH_MAX_PLUS_ONE - 1) |-> NUL], len |-> 1]

\* PathBuf::clear
clear(self) == [buf |-> [i \in 0..(PATH_MAX_PLUS_ONE - 1) |-> NUL], len |-> 1]

\* Deref for PathBuf: the Path over the first len bytes of buf
deref(self) == [i \in 1..self.len |-> self.buf[i - 1]]

\* From<&Path> for PathBuf: len + 1 bytes are copied, starting at the
\* content, so the terminator comes from the Path
from_path(path) ==
    LET bytes == as_str(path)
        len == Len(bytes)
    IN  IF ~(len <= PATH_MAX) THEN Panic(new)
        ELSE Built([buf |-> [i \in 0..(PATH_MAX_PLUS_ONE - 1) |->
                                IF i < len + 1 THEN path[i + 1] ELSE NUL],
                    len |-> len + 1])

\* From<&[u8]> for PathBuf
from_bytes(bytes0) ==
    LET bytes == IF Len(bytes0) # 0 /\ bytes0[Len(bytes0)] = NUL
                    THEN SubSeq(bytes0, 1, Len(bytes0) - 1)
                    ELSE bytes0
        has_no_embedded_nul == ~ \E i \in 1..Len(bytes) : bytes[i] = NUL
        len == Len(bytes)
    IN  IF ~has_no_embedded_nul THEN Panic(new)
        ELSE IF ~(len <= PATH_MAX) THEN Panic(new)
        ELSE IF ~bytes_is_ascii(bytes) THEN Panic(new)
        ELSE Built([buf |-> [i \in 0..(PATH_MAX_PLUS_ONE - 1) |->
                                IF i < len THEN bytes[i + 1] ELSE NUL],
                    len |-> len + 1])

\* From<&str> for PathBuf
from_str(s) == from_bytes(s)

\* push: does the buffer's content end in something other than '/'
needs_separator(self) ==
    LET bytes == as_str(deref(self))
    IN  IF Len(bytes) = 0 THEN FALSE ELSE bytes[Len(bytes)] # SLASH

push_assert_ForgetsSeparator(len, slen, needs_sep) ==
    len + slen <= PATH_MAX_PLUS_ONE

push_assert_RejectsExactFit(len, slen, needs_sep) ==
    len + slen + (IF needs_sep THEN 1 ELSE 0) < PATH_MAX_PLUS_ONE

\* push: the capacity assert!
push_assert(len, slen, needs_sep) ==
    len + slen + (IF needs_sep THEN 1 ELSE 0) <= PATH_MAX_PLUS_ONE

push_write_NoSeparator(self, src, needs_sep) ==
    LET p == self.len - 1
        slen == Len(src)
        b2 == [i \in DOMAIN self.buf |->
                 IF p <= i /\ i < p + slen THEN src[i - p + 1] ELSE self.buf[i]]
    IN  [buf |-> [b2 EXCEPT ![p + slen] = NUL], len |-> self.len + slen]

\* push: the writes after the assert!
push_write(self, src, needs_sep) ==
    LET len == self.len
        p0 == len - 1
        b1 == IF needs_sep THEN [self.buf EXCEPT ![p0] = SLASH] ELSE self.buf
        p == IF needs_sep THEN p0 + 1 ELSE p0
        len1 == IF needs_sep THEN self.len + 1 ELSE self.len
        slen == Len(src)
        b2 == [i \in DOMAIN b1 |->
                 IF p <= i /\ i < p + slen THEN src[i - p + 1] ELSE b1[i]]
        b3 == [b2 EXCEPT ![p + slen] = NUL]
    IN  [buf |-> b3, len |-> len1 + slen]

push_NoRootReset(self, path) ==
    LET src == as_str(path)
    IN  IF src = <<>> THEN Built(self)
        ELSE IF ~push_assert(self.len, Len(src), needs_separator(self))
            THEN Panic(self)
        ELSE Built(push_write(self, src, needs_separator(self)))

\* PathBuf::push
push(self, path) ==
    LET src == as_str(path)
    IN  IF src = <<>> THEN Built(self)
        ELSE IF src = <<SLASH>>
            THEN Built([buf |-> [self.buf EXCEPT ![0] = SLASH, ![1] = NUL],
                        len |-> 2])
        ELSE IF ~push_assert(self.len, Len(src), needs_separator(self))
            THEN Panic(self)
        ELSE Built(push_write(self, src, needs_separator(self)))

\* Path::join
join(self, path) ==
    LET p == from_path(self)
    IN  IF p.panicked THEN p ELSE push(p.pb, path)

----------------------------------------------------------------------------
(* Orderings *)

\* Ord for [u8]: lexicographic; a strict prefix is Less
RECURSIVE slice_cmp(_, _)
slice_cmp(x, y) ==
    IF x = <<>> /\ y = <<>> THEN "Equal"
    ELSE IF x = <<>> THEN "Less"
    ELSE IF y = <<>> THEN "Greater"
    ELSE IF x[1] < y[1] THEN "Less"
    ELSE IF x[1] > y[1] THEN "Greater"
    ELSE slice_cmp(Tail(x), Tail(y))

\* Ord for usize
usize_cmp(m, n) == IF m < n THEN "Less" ELSE IF m > n THEN "Greater" ELSE "Equal"

\* Path::cmp_str: Ord for CStr compares to_bytes()
cmp_str(self, other) == slice_cmp(to_bytes(self), to_bytes(other))

cmp_lfs_ShorterFirst(self, other0) ==
    LET this == to_bytes(self)
        other == to_bytes(other0)
        min_len == IF Len(this) < Len(other) THEN Len(this) ELSE Len(other)
        head == slice_cmp(SubSeq(this, 1, min_len), SubSeq(other, 1, min_len))
    IN  IF head = "Equal" THEN usize_cmp(Len(this), Len(other)) ELSE head

cmp_lfs_PrefixOnly(self, other0) ==
    LET this == to_bytes(self)
        other == to_bytes(other0)
        min_len == IF Len(this) < Len(other) THEN Len(this) ELSE Len(other)
    IN  slice_cmp(SubSeq(this, 1, min_len), SubSeq(other, 1, min_len))

\* Path::cmp_lfs
cmp_lfs(self, other0) ==
    LET this == to_bytes(self)
        other == to_bytes(other0)
        min_len == IF Len(this) < Len(other) THEN Len(this) ELSE Len(other)
        head == slice_cmp(SubSeq(this, 1, min_len), SubSeq(other, 1, min_len))
    IN  IF head = "Less" THEN "Less"
        ELSE IF head = "Greater" THEN "Greater"
        ELSE usize_cmp(Len(other), Len(this))

----------------------------------------------------------------------------
(* Decomposition *)

\* Option<PathBuf>
None == [some |-> FALSE, val |-> new]
Some(x) == [some |-> TRUE, val |-> x]

\* Option<&Path>
NonePath == [some |-> FALSE, val |-> <<>>]
SomePath(path) == [some |-> TRUE, val |-> path]

\* PartialEq for PathBuf, derived: every field, and so every byte of buf
pathbuf_eq_Derived(self, other) == self.buf = other.buf /\ self.len = other.len

\* PartialEq for PathBuf: self.as_ref() == other.as_ref()
pathbuf_eq(self, other) == as_str(deref(self)) = as_str(deref(other))

\* PartialEq for Option<PathBuf>
option_eq(x, y) == x.some = y.some /\ (x.some => pathbuf_eq(x.val, y.val))

\* Iterator::rposition(|x| *x == c): 0-based index of the last c, -1 for None
rposition(s, c) ==
    IF \E i \in 1..Len(s) : s[i] = c
        THEN (CHOOSE i \in 1..Len(s) :
                s[i] = c /\ \A j \in (i + 1)..Len(s) : s[j] # c) - 1
        ELSE -1

\* str::rsplit_once(c): what is before and after the last c
rsplit_once(s, c) ==
    LET i == rposition(s, c)
    IN  IF i = -1 THEN [found |-> FALSE, rem |-> <<>>, tail |-> <<>>]
        ELSE [found |-> TRUE, rem |-> SubSeq(s, 1, i),
              tail |-> SubSeq(s, i + 2, Len(s))]

\* Path::is_empty
is_empty(path) == to_bytes(path) = <<>>

\* Path::file_name
file_name(path) ==
    IF is_empty(path) THEN NonePath
    ELSE LET this == as_str_ref_with_trailing_nul(path)
             sp == rsplit_once(this, SLASH)
         IN  IF ~sp.found \/ sp.tail = <<NUL>> THEN NonePath
             ELSE SomePath(sp.tail)

\* Path::parent
RECURSIVE parent(_)
parent(path) ==
    LET rk_path_bytes == as_str(path)
        slash_index == rposition(rk_path_bytes, SLASH)
    IN  IF slash_index = 0 /\ Len(rk_path_bytes) # 1
            THEN Some(from_str(<<SLASH>>).pb)
        ELSE IF slash_index # -1
            THEN IF slash_index + 1 = Len(rk_path_bytes)
                    THEN parent(deref(from_bytes(SubSeq(rk_path_bytes, 1, slash_index)).pb))
                    ELSE Some(from_bytes(SubSeq(rk_path_bytes, 1, slash_index)).pb)
        ELSE None

Ancestors_next_NoSkip(path) ==
    IF path = <<>> THEN [path |-> path, item |-> None]
    ELSE IF path = <<SLASH>>
        THEN [path |-> <<>>, item |-> Some(from_str(<<SLASH>>).pb)]
    ELSE LET sp == rsplit_once(path, SLASH)
         IN  IF ~sp.found THEN [path |-> <<>>, item |-> Some(from_str(path).pb)]
             ELSE [path |-> IF starts_with_slash(path) /\ sp.rem = <<>>
                                THEN <<SLASH>> ELSE sp.rem,
                   item |-> Some(from_str(path).pb)]

\* Ancestors::next: the iterator's path afterwards, and the item returned
RECURSIVE Ancestors_next(_)
Ancestors_next(path) ==
    IF path = <<>> THEN [path |-> path, item |-> None]
    ELSE IF path = <<SLASH>>
        THEN [path |-> <<>>, item |-> Some(from_str(<<SLASH>>).pb)]
    ELSE LET item == path
             sp == rsplit_once(path, SLASH)
         IN  IF ~sp.found THEN [path |-> <<>>, item |-> Some(from_str(item).pb)]
             ELSE LET p1 == IF starts_with_slash(path) /\ sp.rem = <<>>
                               THEN <<SLASH>> ELSE sp.rem
                      \* a trailing '/': self.next() is called, its item dropped
                      p2 == IF sp.tail = <<>> THEN Ancestors_next(p1).path ELSE p1
                  IN  [path |-> p2, item |-> Some(from_str(item).pb)]

\* Path::ancestors
ancestors(path) == as_str(path)

\* str::split_once(c): what is before and after the first c
split_once(s, c) ==
    IF \E i \in 1..Len(s) : s[i] = c
        THEN LET i == CHOOSE i \in 1..Len(s) :
                        s[i] = c /\ \A j \in 1..(i - 1) : s[j] # c
             IN  [found |-> TRUE, head |-> SubSeq(s, 1, i - 1),
                  rem |-> SubSeq(s, i + 1, Len(s))]
        ELSE [found |-> FALSE, head |-> <<>>, rem |-> <<>>]

\* Iter::next: the iterator's path afterwards, and the item returned
Iter_next(path) ==
    IF path = <<>> THEN [path |-> path, item |-> None]
    ELSE IF starts_with_slash(path)
        THEN [path |-> SubSeq(path, 2, Len(path)),
              item |-> Some(from_str(<<SLASH>>).pb)]
    ELSE LET sp == split_once(path, SLASH)
         IN  IF ~sp.found
                THEN [path |-> <<>>, item |-> Some(from_str(path).pb)]
                ELSE [path |-> sp.rem, item |-> Some(from_str(sp.head).pb)]

\* Path::iter
iter(path) == as_str(path)

----------------------------------------------------------------------------
(* Inputs *)

\* Every Path safe code can hold: what either checked constructor accepts.
ArgPaths ==
    {s \in Strs({NUL, SLASH, 97}, PATH_MAX + 2) :
        from_bytes_with_nul(s).ok \/ from_str_with_nul(s).ok}

\* Byte slices given to From<&[u8]>
ArgBytes == Strs({NUL, 97, 195}, PATH_MAX + 1)

\* strs given to From<&str>
ArgStrs == {s \in Strs({NUL, 97, 195, 188}, PATH_MAX + 1) : is_utf8(s)}

----------------------------------------------------------------------------
(* The PathBuf under construction and mutation *)

PureIdle ==
    /\ in1 = <<>> /\ in2 = <<>> /\ in3 = <<>> /\ out = "none"
    /\ it_path = <<>> /\ it_ret = <<>>

BufIdle ==
    /\ pb = new /\ pb2 = new /\ joined = new /\ old = new /\ arg = <<>>
    /\ panicked = FALSE

Init ==
    /\ pb = new /\ pb2 = new /\ joined = new /\ old = new /\ arg = <<>>
    /\ panicked = FALSE /\ op = "new"
    /\ PureIdle

New ==
    /\ ~panicked
    /\ pb' = new /\ panicked' = FALSE
    /\ op' = "new" /\ arg' = <<>>
    /\ joined' = new /\ old' = new
    /\ UNCHANGED <<pb2, in1, in2, in3, out, it_path, it_ret>>

Clear ==
    /\ ~panicked
    /\ pb' = clear(pb) /\ panicked' = FALSE
    /\ op' = "clear" /\ arg' = <<>>
    /\ joined' = new /\ old' = new
    /\ UNCHANGED <<pb2, in1, in2, in3, out, it_path, it_ret>>

\* A constructor that panics builds no PathBuf: pb is then the zeroed
\* placeholder, and nothing is applied to it afterwards.
FromPath ==
    \E path \in ArgPaths :
        LET r == from_path(path)
        IN  /\ ~panicked
            /\ pb' = r.pb /\ panicked' = r.panicked
            /\ op' = "from_path" /\ arg' = path
            /\ joined' = new /\ old' = new
            /\ UNCHANGED <<pb2, in1, in2, in3, out, it_path, it_ret>>

FromBytes ==
    \E bytes \in ArgBytes :
        LET r == from_bytes(bytes)
        IN  /\ ~panicked
            /\ pb' = r.pb /\ panicked' = r.panicked
            /\ op' = "from_bytes" /\ arg' = bytes
            /\ joined' = new /\ old' = new
            /\ UNCHANGED <<pb2, in1, in2, in3, out, it_path, it_ret>>

FromStr ==
    \E s \in ArgStrs :
        LET r == from_str(s)
        IN  /\ ~panicked
            /\ pb' = r.pb /\ panicked' = r.panicked
            /\ op' = "from_str" /\ arg' = s
            /\ joined' = new /\ old' = new
            /\ UNCHANGED <<pb2, in1, in2, in3, out, it_path, it_ret>>

Push ==
    \E path \in ArgPaths :
        LET r == push(pb, path)
        IN  /\ ~panicked
            /\ pb' = r.pb /\ panicked' = r.panicked
            /\ op' = "push" /\ arg' = path /\ old' = pb
            /\ joined' = new
            /\ UNCHANGED <<pb2, in1, in2, in3, out, it_path, it_ret>>

Join ==
    \E path \in ArgPaths :
        LET r == join(deref(pb), path)
        IN  /\ ~panicked
            /\ joined' = r.pb /\ panicked' = r.panicked
            /\ op' = "join" /\ arg' = path /\ old' = pb
            /\ UNCHANGED <<pb2, pb, in1, in2, in3, out, it_path, it_ret>>

Next == New \/ Clear \/ FromPath \/ FromBytes \/ FromStr \/ Push \/ Join

Spec == Init /\ [][Next]_vars

----------------------------------------------------------------------------
(* The two checked constructors of Path, applied to one byte string *)

CtorInputs == Strs({NUL, 97, 195, 188}, PATH_MAX + 2)

InitCtor ==
    /\ in1 \in CtorInputs
    /\ in2 = <<>> /\ in3 = <<>> /\ out = "none" /\ op = "init"
    /\ it_path = <<>> /\ it_ret = <<>>
    /\ BufIdle

FromBytesWithNul ==
    /\ out' = from_bytes_with_nul(in1)
    /\ op' = "from_bytes_with_nul"
    /\ UNCHANGED <<pb2, pb, joined, old, arg, panicked, in1, in2, in3, it_path, it_ret>>

\* the argument is a &str
FromStrWithNul ==
    /\ is_utf8(in1)
    /\ out' = from_str_with_nul(in1)
    /\ op' = "from_str_with_nul"
    /\ UNCHANGED <<pb2, pb, joined, old, arg, panicked, in1, in2, in3, it_path, it_ret>>

NextCtor == FromBytesWithNul \/ FromStrWithNul

SpecCtor == InitCtor /\ [][NextCtor]_vars

----------------------------------------------------------------------------
(* The two orderings, applied to three valid paths *)

CmpPaths ==
    {p \in {Append(s, NUL) : s \in Strs({SLASH, 97, 98}, MaxCmpLen)} :
        from_bytes_with_nul(p).ok}

NotCompared == [done |-> FALSE, ab |-> "Equal", ba |-> "Equal", bc |-> "Equal", ac |-> "Equal"]

InitCmp ==
    /\ in1 \in CmpPaths /\ in2 \in CmpPaths /\ in3 \in CmpPaths
    /\ out = [str |-> NotCompared, lfs |-> NotCompared] /\ op = "init"
    /\ it_path = <<>> /\ it_ret = <<>>
    /\ BufIdle

CmpStr ==
    /\ ~out.str.done
    /\ out' = [out EXCEPT !.str =
                 [done |-> TRUE, ab |-> cmp_str(in1, in2), ba |-> cmp_str(in2, in1),
                  bc |-> cmp_str(in2, in3), ac |-> cmp_str(in1, in3)]]
    /\ op' = "cmp_str"
    /\ UNCHANGED <<pb2, pb, joined, old, arg, panicked, in1, in2, in3, it_path, it_ret>>

CmpLfs ==
    /\ ~out.lfs.done
    /\ out' = [out EXCEPT !.lfs =
                 [done |-> TRUE, ab |-> cmp_lfs(in1, in2), ba |-> cmp_lfs(in2, in1),
                  bc |-> cmp_lfs(in2, in3), ac |-> cmp_lfs(in1, in3)]]
    /\ op' = "cmp_lfs"
    /\ UNCHANGED <<pb2, pb, joined, old, arg, panicked, in1, in2, in3, it_path, it_ret>>

NextCmp == CmpStr \/ CmpLfs

SpecCmp == InitCmp /\ [][NextCmp]_vars

----------------------------------------------------------------------------
(* Decomposition of one valid path *)

DecompPaths ==
    {p \in {Append(s, NUL) : s \in Strs({46, SLASH, 97}, PATH_MAX)} :
        from_bytes_with_nul(p).ok}

NonesReturned == Cardinality({k \in 1..Len(it_ret) : ~it_ret[k].some})

\* the iterator is created by in1.ancestors()
InitDecomp ==
    /\ in1 \in DecompPaths
    /\ in2 = <<>> /\ in3 = <<>> /\ out = NonePath /\ op = "init"
    /\ it_path = ancestors(in1) /\ it_ret = <<>>
    /\ BufIdle

AncestorsNext ==
    LET r == Ancestors_next(it_path)
    IN  /\ NonesReturned < MaxNones
        /\ it_path' = r.path
        /\ it_ret' = Append(it_ret, r.item)
        /\ UNCHANGED <<pb2, pb, joined, old, arg, panicked, op, in1, in2, in3, out>>

FileName ==
    /\ out' = file_name(in1)
    /\ op' = "file_name"
    /\ UNCHANGED <<pb2, pb, joined, old, arg, panicked, in1, in2, in3, it_path, it_ret>>

Parent ==
    /\ out' = parent(in1)
    /\ op' = "parent"
    /\ UNCHANGED <<pb2, pb, joined, old, arg, panicked, in1, in2, in3, it_path, it_ret>>

NextDecomp == AncestorsNext \/ FileName \/ Parent

SpecDecomp == InitDecomp /\ [][NextDecomp]_vars

----------------------------------------------------------------------------
(* The components of one valid path *)

\* the iterator is created by in1.iter()
InitIter ==
    /\ in1 \in DecompPaths
    /\ in2 = <<>> /\ in3 = <<>> /\ out = NonePath /\ op = "init"
    /\ it_path = iter(in1) /\ it_ret = <<>>
    /\ BufIdle

IterNext ==
    LET r == Iter_next(it_path)
    IN  /\ NonesReturned < MaxNones
        /\ it_path' = r.path
        /\ it_ret' = Append(it_ret, r.item)
        /\ op' = "iter_next"
        /\ UNCHANGED <<pb2, pb, joined, old, arg, panicked, in1, in2, in3, out>>

NextIter == IterNext

SpecIter == InitIter /\ [][NextIter]_vars

----------------------------------------------------------------------------
(* Two PathBufs, built and mutated independently, and compared *)

\* the Paths "", "/", "a", ... given to from and push
EqPaths == {Append(s, NUL) : s \in Strs({SLASH, 97}, MaxEqArg)}

EqBytes == Strs({NUL, 97}, MaxEqArg + 1)

\* in1 and in2 remember the bytes pb and pb2 were last built from by
\* PathBuf::from(&[u8]), while nothing else has touched the buffer since
NotFromBytes == [given |-> FALSE, bytes |-> <<>>]
GivenBytes(bytes) == [given |-> TRUE, bytes |-> bytes]

InitEq ==
    /\ BufIdle
    /\ op = "init" /\ out = FALSE
    /\ in1 = NotFromBytes /\ in2 = NotFromBytes /\ in3 = <<>>
    /\ it_path = <<>> /\ it_ret = <<>>

NewEither ==
    /\ ~panicked
    /\ \E w \in {1, 2} :
        IF w = 1
            THEN pb' = new /\ in1' = NotFromBytes /\ UNCHANGED <<pb2, in2>>
            ELSE pb2' = new /\ in2' = NotFromBytes /\ UNCHANGED <<pb, in1>>
    /\ op' = "init" /\ out' = FALSE
    /\ UNCHANGED <<joined, old, arg, panicked, in3, it_path, it_ret>>

ClearEither ==
    /\ ~panicked
    /\ \E w \in {1, 2} :
        IF w = 1
            THEN pb' = clear(pb) /\ in1' = NotFromBytes /\ UNCHANGED <<pb2, in2>>
            ELSE pb2' = clear(pb2) /\ in2' = NotFromBytes /\ UNCHANGED <<pb, in1>>
    /\ op' = "init" /\ out' = FALSE
    /\ UNCHANGED <<joined, old, arg, panicked, in3, it_path, it_ret>>

FromPathEither ==
    /\ ~panicked
    /\ \E w \in {1, 2}, path \in EqPaths :
        LET r == from_path(path) IN
        /\ IF w = 1
            THEN pb' = r.pb /\ in1' = NotFromBytes /\ UNCHANGED <<pb2, in2>>
            ELSE pb2' = r.pb /\ in2' = NotFromBytes /\ UNCHANGED <<pb, in1>>
        /\ panicked' = r.panicked
    /\ op' = "init" /\ out' = FALSE
    /\ UNCHANGED <<joined, old, arg, in3, it_path, it_ret>>

FromBytesEither ==
    /\ ~panicked
    /\ \E w \in {1, 2}, bytes \in EqBytes :
        LET r == from_bytes(bytes) IN
        /\ IF w = 1
            THEN pb' = r.pb /\ in1' = GivenBytes(bytes) /\ UNCHANGED <<pb2, in2>>
            ELSE pb2' = r.pb /\ in2' = GivenBytes(bytes) /\ UNCHANGED <<pb, in1>>
        /\ panicked' = r.panicked
    /\ op' = "init" /\ out' = FALSE
    /\ UNCHANGED <<joined, old, arg, in3, it_path, it_ret>>

PushEither ==
    /\ ~panicked
    /\ \E w \in {1, 2}, path \in EqPaths :
        LET r == push(IF w = 1 THEN pb ELSE pb2, path) IN
        /\ IF w = 1
            THEN pb' = r.pb /\ in1' = NotFromBytes /\ UNCHANGED <<pb2, in2>>
            ELSE pb2' = r.pb /\ in2' = NotFromBytes /\ UNCHANGED <<pb, in1>>
        /\ panicked' = r.panicked
    /\ op' = "init" /\ out' = FALSE
    /\ UNCHANGED <<joined, old, arg, in3, it_path, it_ret>>

\* pb == pb2
Eq ==
    /\ ~panicked
    /\ out' = pathbuf_eq(pb, pb2)
    /\ op' = "eq"
    /\ UNCHANGED <<pb, pb2, joined, old, arg, panicked, in1, in2, in3, it_path, it_ret>>

NextEq ==
    NewEither \/ ClearEither \/ FromPathEither \/ FromBytesEither \/ PushEither \/ Eq

SpecEq == InitEq /\ [][NextEq]_vars

----------------------------------------------------------------------------
(* Claims about the constructors (SpecCtor) *)

\* what the contract asks of a byte string, stated without the constructors
OnlyNulIsLast(b) ==
    /\ Len(b) >= 1 /\ b[Len(b)] = 0
    /\ \A i \in 1..(Len(b) - 1) : b[i] # 0
ValidPathBytes(b) ==
    /\ \A i \in 1..Len(b) : b[i] < 128
    /\ OnlyNulIsLast(b)
    /\ Len(b) - 1 <= PATH_MAX

\* C1: from_bytes_with_nul(bytes) is Ok exactly when bytes is 7-bit ASCII,
\* holds exactly one zero byte, the last one, and is at most PATH_MAX long
\* without it; the Path returned is the input; an Err names a condition the
\* input violates (NotCStr: terminator missing or interior, TooLarge:
\* content longer than PATH_MAX, NotAscii: a byte >= 128).
C1_FromBytesWithNulContract ==
    op = "from_bytes_with_nul" =>
        /\ out.ok <=> ValidPathBytes(in1)
        /\ out.ok => out.path = in1
        /\ ~out.ok => out.err \in {"NotCStr", "TooLarge", "NotAscii"}
        /\ out.err = "NotCStr" => ~OnlyNulIsLast(in1)
        /\ out.err = "TooLarge" => Len(in1) - 1 > PATH_MAX
        /\ out.err = "NotAscii" => \E i \in 1..Len(in1) : in1[i] >= 128

\* C1 witness: a path of exactly PATH_MAX bytes was accepted
C1_Witness ==
    /\ op = "from_bytes_with_nul" /\ out.ok
    /\ Len(in1) = PATH_MAX + 1 /\ out.path = in1

\* C10: from_str_with_nul(s) returns a Path exactly when
\* from_bytes_with_nul(s) is Ok, so what it returns is within PATH_MAX and
\* can be copied into a PathBuf without aborting.
C10_ConstCtorSameChecks ==
    op = "from_str_with_nul" =>
        /\ out.ok <=> from_bytes_with_nul(in1).ok
        /\ out.ok => (ValidPathBytes(out.path) /\ ~from_path(out.path).panicked)

----------------------------------------------------------------------------
(* Claims about the orderings (SpecCmp) *)

IsPrefix(x, y) == Len(x) <= Len(y) /\ SubSeq(y, 1, Len(x)) = x
StrictPrefix(x, y) == IsPrefix(x, y) /\ Len(x) < Len(y)
Reverse(o) == IF o = "Less" THEN "Greater" ELSE IF o = "Greater" THEN "Less" ELSE "Equal"

\* C2: when neither content is a prefix of the other, cmp_str and cmp_lfs
\* agree; when one is a strict prefix of the other, cmp_str puts the shorter
\* first and cmp_lfs the longer; on equal contents both are Equal.
C2_OrdersAgreeExceptOnPrefixes ==
    (out.str.done /\ out.lfs.done) =>
        LET a == to_bytes(in1)
            b == to_bytes(in2)
        IN  /\ (~IsPrefix(a, b) /\ ~IsPrefix(b, a)) => out.str.ab = out.lfs.ab
            /\ StrictPrefix(a, b) => (out.str.ab = "Less" /\ out.lfs.ab = "Greater")
            /\ StrictPrefix(b, a) => (out.str.ab = "Greater" /\ out.lfs.ab = "Less")
            /\ a = b => (out.str.ab = "Equal" /\ out.lfs.ab = "Equal")

\* C2 witness: both orders were applied to a path and a strict prefix of it
C2_Witness ==
    /\ out.str.done /\ out.lfs.done
    /\ StrictPrefix(to_bytes(in1), to_bytes(in2))
    /\ out.str.ab = "Less" /\ out.lfs.ab = "Greater"

TotalOrderOn(r) ==
    r.done =>
        /\ r.ab = "Equal" <=> to_bytes(in1) = to_bytes(in2)
        /\ r.ab = Reverse(r.ba)
        /\ (r.ab = "Less" /\ r.bc = "Less") => r.ac = "Less"

\* C3: cmp_str and cmp_lfs are strict total orders on path contents: Equal
\* exactly on equal contents, cmp(a,b) the reverse of cmp(b,a), and
\* transitive.
C3_BothAreStrictTotalOrders == TotalOrderOn(out.str) /\ TotalOrderOn(out.lfs)

\* C3 witness: three paths, each a strict prefix of the one before, ordered
\* by cmp_lfs
C3_Witness ==
    /\ out.lfs.done /\ out.str.done
    /\ StrictPrefix(to_bytes(in2), to_bytes(in1))
    /\ StrictPrefix(to_bytes(in3), to_bytes(in2))
    /\ out.lfs.ab = "Less" /\ out.lfs.bc = "Less" /\ out.lfs.ac = "Less"

----------------------------------------------------------------------------
(* Claims about PathBuf (Spec) *)

Content(b) == as_str(deref(b))
EndsInSlash(a) == a # <<>> /\ a[Len(a)] = SLASH
Trivial(b) == b = <<>> \/ b = <<SLASH>>

PathBufInvariant(b) ==
    /\ 1 <= b.len /\ b.len <= PATH_MAX + 1
    /\ b.buf[b.len - 1] = 0
    /\ \A i \in 0..(b.len - 2) : b.buf[i] # 0 /\ b.buf[i] < 128

\* C4: after new, clear, from and push calls that do not abort,
\* 1 <= len <= PATH_MAX + 1, buf[len-1] = 0 and buf[0..len-1] holds only
\* non-zero ASCII bytes, so the PathBuf dereferences to a valid Path; new
\* and clear give len = 1 and the empty content.
C4_PathBufInvariant ==
    ~panicked =>
        /\ PathBufInvariant(pb)
        /\ ValidPathBytes(deref(pb))
        /\ PathBufInvariant(joined)
        /\ op \in {"new", "clear"} => (pb.len = 1 /\ Content(pb) = <<>>)

\* C4 witness: a push with a separator filled the buffer to its last byte,
\* over bytes a reset to "/" had left behind
C4_Witness ==
    /\ op = "push" /\ ~panicked
    /\ pb.len = PATH_MAX + 1
    /\ old.len = 2 /\ \E i \in 2..PATH_MAX : old.buf[i] # 0

SeparatorInserted(a) == IF a # <<>> /\ ~EndsInSlash(a) THEN 1 ELSE 0

\* C5: push(other) and join(other), other neither "" nor "/", succeed exactly
\* when content + separator (if one is inserted) + other <= PATH_MAX; if not
\* they abort with the buffer and its len as they were.
C5_PushFitsExactlyOrAbortsUntouched ==
    (op \in {"push", "join"} /\ ~Trivial(as_str(arg))) =>
        LET a == Content(old)
            fits == Len(a) + SeparatorInserted(a) + Len(as_str(arg)) <= PATH_MAX
        IN  /\ ~panicked <=> fits
            /\ panicked => pb = old
            /\ (panicked /\ op = "join") => (joined.len = old.len /\ Content(joined) = a)

\* C5 witness: a push that needed one byte more than the buffer has aborted
C5_Witness ==
    /\ op = "push" /\ panicked /\ ~Trivial(as_str(arg))
    /\ SeparatorInserted(Content(old)) = 1
    /\ Len(Content(old)) + 1 + Len(as_str(arg)) = PATH_MAX + 1
    /\ pb = old

JoinContent(a, b) ==
    IF b = <<>> THEN a
    ELSE IF b = <<SLASH>> THEN <<SLASH>>
    ELSE IF a = <<>> THEN b
    ELSE IF EndsInSlash(a) THEN a \o b
    ELSE a \o <<SLASH>> \o b

\* C6: for valid a and b that fit, a.join(b) and pushing b onto a copy of a
\* give a if b is empty, "/" if b is "/", b if a is empty, a b if a ends in
\* '/', a '/' b otherwise; join leaves a as it was.
C6_JoinContent ==
    (/\ op \in {"push", "join"}
     /\ ValidPathBytes(arg)
     /\ Len(JoinContent(Content(old), as_str(arg))) <= PATH_MAX) =>
        /\ ~panicked
        /\ Content(IF op = "join" THEN joined ELSE pb)
                = JoinContent(Content(old), as_str(arg))
        /\ op = "join" => pb = old

\* C6 witness: "/" was joined to a longer path and the result is "/"
C6_Witness ==
    /\ op = "join" /\ ~panicked
    /\ as_str(arg) = <<SLASH>> /\ Len(Content(old)) > 1
    /\ Content(joined) = <<SLASH>> /\ pb = old

\* C7 as claimed: every buffer whose content does not end in '/' gets
\* content + "/" + other, every buffer whose content ends in '/' gets
\* content + other.
C7_SeparatorUnlessEndsInSlash ==
    (op = "push" /\ ~panicked /\ ~Trivial(as_str(arg))) =>
        Content(pb) = IF EndsInSlash(Content(old))
                         THEN Content(old) \o as_str(arg)
                         ELSE Content(old) \o <<SLASH>> \o as_str(arg)

\* C7 as amended: a buffer whose content is non-empty and does not end in
\* '/' gets content + "/" + other; a buffer that is empty or ends in '/' gets
\* content + other.
C7_SeparatorUnlessEmptyOrEndsInSlash ==
    (op = "push" /\ ~panicked /\ ~Trivial(as_str(arg))) =>
        Content(pb) = IF Content(old) = <<>> \/ EndsInSlash(Content(old))
                         THEN Content(old) \o as_str(arg)
                         ELSE Content(old) \o <<SLASH>> \o as_str(arg)

\* C7 witness: a push onto a non-empty buffer not ending in '/' put the
\* separator in
C7_Witness ==
    /\ op = "push" /\ ~panicked /\ ~Trivial(as_str(arg))
    /\ Content(old) # <<>> /\ ~EndsInSlash(Content(old))
    /\ Content(pb) = Content(old) \o <<SLASH>> \o as_str(arg)

----------------------------------------------------------------------------
(* Claims about the decomposition (SpecDecomp) *)

\* C8: the first item of p.ancestors() is p (p non-empty), every later item
\* is parent() of the item before it, and next() is None exactly when
\* parent() of the last item is None; the empty path yields nothing and has
\* no parent.
C8_AncestorsFollowParent ==
    /\ \A k \in 1..Len(it_ret) :
          IF k = 1
            THEN /\ it_ret[1].some <=> as_str(in1) # <<>>
                 /\ it_ret[1].some => deref(it_ret[1].val) = in1
            ELSE IF it_ret[k - 1].some
                    THEN option_eq(it_ret[k], parent(deref(it_ret[k - 1].val)))
                    ELSE ~it_ret[k].some
    /\ as_str(in1) = <<>> => ~parent(in1).some

\* C8 witness: a path with a trailing '/' has yielded itself, then its
\* parent, then None
C8_Witness ==
    /\ Len(it_ret) >= 3
    /\ EndsInSlash(as_str(in1))
    /\ it_ret[1].some /\ it_ret[2].some /\ ~it_ret[Len(it_ret)].some

AfterLastSlash(s) ==
    IF \E i \in 1..Len(s) : s[i] = SLASH
        THEN SubSeq(s, (CHOOSE i \in 1..Len(s) :
                          s[i] = SLASH /\ \A j \in (i + 1)..Len(s) : s[j] # SLASH) + 1,
                    Len(s))
        ELSE s

\* C9: file_name() is None exactly when the path is empty, is "/" or ends
\* in '/'; for every other path, with or without a '/', it is Some of the
\* bytes after the last '/' (the whole path when there is none).
C9_FileNameIsLastSegment ==
    op = "file_name" =>
        LET s == as_str(in1)
        IN  /\ ~out.some <=> (s = <<>> \/ s = <<SLASH>> \/ EndsInSlash(s))
            /\ out.some => as_str(out.val) = AfterLastSlash(s)

----------------------------------------------------------------------------
(* Claims about the components (SpecIter) *)

\* the items it_ret[k..] pushed in order onto b
RECURSIVE Rejoined(_, _)
Rejoined(b, k) ==
    IF k > Len(it_ret) \/ ~it_ret[k].some THEN b
    ELSE Rejoined(push(b, deref(it_ret[k].val)).pb, k + 1)

\* a path without its trailing '/' separators (the root "/" stays)
RECURSIVE WithoutTrailingSlashes(_)
WithoutTrailingSlashes(s) ==
    IF Len(s) > 1 /\ s[Len(s)] = SLASH
        THEN WithoutTrailingSlashes(SubSeq(s, 1, Len(s) - 1))
        ELSE s

\* C11: pushing the items of p.iter() in order onto the empty PathBuf gives
\* p without its trailing '/' separators, also when p has a leading '/',
\* "." and ".." segments or consecutive '/' inside; the empty path yields
\* no item.
C11_IterRejoinsToPath ==
    (Len(it_ret) > 0 /\ ~it_ret[Len(it_ret)].some) =>
        /\ Content(Rejoined(new, 1)) = WithoutTrailingSlashes(as_str(in1))
        /\ as_str(in1) = <<>> => ~it_ret[1].some

----------------------------------------------------------------------------
(* Claims about ancestors' last item and about parent (SpecDecomp) *)

Yielded == {k \in 1..Len(it_ret) : it_ret[k].some}
LastYielded == it_ret[CHOOSE k \in Yielded : \A j \in Yielded : j <= k].val

\* C12: for a non-empty p, ancestors() yields p first; before None it
\* yields "/" last when p starts with '/'; when p is relative its last item
\* does not start with '/' and no item is "/".  "/" yields "/" once.
C12_AncestorsEndAtRoot ==
    (Len(it_ret) > 0 /\ ~it_ret[Len(it_ret)].some /\ as_str(in1) # <<>>) =>
        /\ it_ret[1].some /\ Content(it_ret[1].val) = as_str(in1)
        /\ starts_with_slash(as_str(in1)) => Content(LastYielded) = <<SLASH>>
        /\ ~starts_with_slash(as_str(in1)) =>
              /\ ~starts_with_slash(Content(LastYielded))
              /\ \A k \in Yielded : Content(it_ret[k].val) # <<SLASH>>
        /\ as_str(in1) = <<SLASH>> => Yielded = {1}

NoSlashIn(s) == \A i \in 1..Len(s) : s[i] # SLASH

\* C13: if p.parent() is Some(q), q is "/" or does not end in '/'; parent()
\* is None when p has no '/' and when p is "/"; it is Some("/") when p's
\* only '/' is the leading one and p is longer than one byte.
C13_ParentHasNoTrailingSlash ==
    op = "parent" =>
        LET s == as_str(in1)
        IN  /\ out.some => (Content(out.val) = <<SLASH>> \/ ~EndsInSlash(Content(out.val)))
            /\ (NoSlashIn(s) \/ s = <<SLASH>>) => ~out.some
            /\ (Len(s) > 1 /\ s[1] = SLASH /\ NoSlashIn(Tail(s))) =>
                  (out.some /\ Content(out.val) = <<SLASH>>)

----------------------------------------------------------------------------
(* Claims about PathBuf equality (SpecEq) *)

\* the bytes of b.buf before its first nul, read without looking at b.len
ContentUpToTerminator(b) ==
    LET nuls == {i \in 0..(PATH_MAX_PLUS_ONE - 1) : b.buf[i] = NUL}
        end == IF nuls = {} THEN PATH_MAX_PLUS_ONE
               ELSE CHOOSE i \in nuls : \A j \in nuls : i <= j
    IN  [i \in 1..end |-> b.buf[i - 1]]

\* one of the two byte strings is the other with a nul appended
SameButTrailingNul(s, t) == s = Append(t, NUL) \/ t = Append(s, NUL)

\* C14: whatever sequences of new, clear, from and push built pb and pb2,
\* pb == pb2 holds exactly when the bytes of the two buffers up to their
\* terminators are the same, stale bytes after the terminator playing no part;
\* and two PathBufs built from the same bytes, one with and one without a
\* trailing nul, are equal.
C14_EqualityIsByContent ==
    op = "eq" =>
        /\ out <=> (ContentUpToTerminator(pb) = ContentUpToTerminator(pb2))
        /\ (in1.given /\ in2.given /\ SameButTrailingNul(in1.bytes, in2.bytes))
                => out

\* pb was reset to "/" by push("/") and keeps a stale byte after the
\* terminator, pb2 is a clean "/", and the two compared equal
C14_Witness ==
    /\ op = "eq" /\ out
    /\ ContentUpToTerminator(pb) = <<SLASH>>
    /\ pb.buf # pb2.buf
    /\ \E i \in 2..(PATH_MAX_PLUS_ONE - 1) : pb.buf[i] # NUL /\ pb2.buf[i] = NUL

====
